---- MODULE Spec2Model ----
(***************************************************************************)
(* Prompt-composition engine of the generate-mod-idea edge function:       *)
(* the theme matcher (getRelevantTemplates), the prompt composer           *)
(* (buildSystemPrompt) and the request handler that calls them.            *)
(*                                                                         *)
(* Text is modelled as a sequence of tokens: the string is the             *)
(* concatenation of the tokens, in order.  Lua example bodies and the      *)
(* fixed boilerplate blocks of the prompt are single opaque tokens.        *)
(* The arrow character of the source text is written "->" and the code     *)
(* fence of three backquotes "[fence]".                                    *)
(***************************************************************************)
EXTENDS Integers, Sequences, FiniteSets, TLC

(* ---- bounds ---- *)
\* longest requested tag list that is enumerated
MaxLen == 2
\* number of requests the handler serves in one behaviour
MaxRequests == 2

\* longest sequence of buildSystemPrompt calls that is enumerated
MaxCalls == 3

\* number of different idea ids that are enumerated
MaxIdeas == 3
\* number of invocations the page may have in flight before the model stops
\* starting new ones
MaxInFlight == 2
\* number of theme badges of the form that are clicked
MaxFormTags == 3

(* ---- state ---- *)
VARIABLES
  requestedTags,     \* argument of the getRelevantTemplates call under test
  matched,   \* the array it returned
  mpc,        \* "call" before the call, "return" after it, "off" in the handler
  apiKey,     \* whether LOVABLE_API_KEY is set in the environment
  pc,         \* per request: "idle", "parsed", "fetching" (awaiting the endpoint), "done"
  request,    \* per request in flight: the parsed body
  sent,       \* per request: the messages handed to the endpoint
  response,   \* per request: the response returned to the caller
  calls,      \* the buildSystemPrompt calls of the composer run: argument and result
  uuids,      \* number of UUIDs generated so far
  gateway,    \* per request: how often the model endpoint was called, and its answer
  savedIdeas,      \* useSavedIdeas: the saved ideas, in the order they were saved
  lastCall,        \* the call of the saved-ideas hook, or of generateIdea, that returned last
  formThemes,      \* GeneratorForm: its selectedThemes, in the order of selection
  isGenerating,    \* Index: a generation is under way
  generatedIdea,   \* Index: the idea shown, or null
  inFlight         \* the invocations of the edge function that have not settled

mvars == <<requestedTags, matched, mpc>>
hvars == <<apiKey, pc, request, sent, response, calls, uuids, gateway>>
pvars == <<savedIdeas, lastCall, formThemes, isGenerating, generatedIdea, inFlight>>
vars == <<requestedTags, matched, mpc, apiKey, pc, request, sent, response, calls, uuids, gateway,
          savedIdeas, lastCall, formThemes, isGenerating, generatedIdea, inFlight>>

(* ---- catalogs (module-level constants of index.ts) ---- *)
DOCS_BASE == "https://openmw.readthedocs.io/en/latest/reference/lua-scripting"

SCRIPT_CONTEXT_TEMPLATES ==
  <<
    [key |-> "global", name |-> "Global Script",
     description |-> "Runs always, can modify world state, spawn objects, manage quests",
     omwscriptsFlag |-> "GLOBAL:",
     access |-> <<"openmw.world - Create objects, access cells, modify world",
                  "core.sendGlobalEvent - Receive events from local scripts",
                  "types.Player.quests(player)[questId]:addJournalEntry(stage, actor) - Quest journal updates",
                  "Full world manipulation capabilities">>],
    [key |-> "local", name |-> "Local Script",
     description |-> "Attached to specific actors/objects, access to self and nearby",
     omwscriptsFlags |-> <<"NPC:", "CREATURE:", "ACTIVATOR:", "CONTAINER:", "CUSTOM:">>,
     access |-> <<"openmw.self - The object this script is attached to",
                  "openmw.nearby - Objects near this actor",
                  "object:sendEvent - Send events to other local scripts",
                  "core.sendGlobalEvent - Send events to global scripts">>],
    [key |-> "player", name |-> "Player Script",
     description |-> "Special local script for player only, access to UI and camera",
     omwscriptsFlag |-> "PLAYER:",
     access |-> <<"openmw.ui - Create HUD elements, menus",
                  "openmw.camera - Camera manipulation",
                  "openmw.input - Key bindings, input handling",
                  "All local script capabilities plus player-specific features">>]
  >>

INTERFACE_TEMPLATES ==
  <<
    [key |-> "definingInterface", title |-> "Defining a Custom Interface",
     description |-> "Expose functions for other scripts to call"],
    [key |-> "usingBuiltinInterfaces", title |-> "Using Built-in Interfaces",
     description |-> "Leverage OpenMW's built-in interface system"],
    [key |-> "overrideInterface", title |-> "Interface Override Pattern",
     description |-> "Extend or modify existing interfaces"]
  >>

EVENT_TEMPLATES ==
  <<
    [key |-> "globalEvents", title |-> "Global Events (Local -> Global)",
     description |-> "Send events from local scripts to global coordinator"],
    [key |-> "localEvents", title |-> "Local Events (Global -> Local or Local -> Local)",
     description |-> "Send events to specific objects or nearby actors"],
    [key |-> "eventInterception", title |-> "Event Handler with Interception",
     description |-> "Process events and optionally block propagation"]
  >>

MULTI_STAGE_TEMPLATES ==
  <<
    [key |-> "stateMachine", title |-> "State Machine with Persistence",
     description |-> "Save/load state across game sessions"],
    [key |-> "reliableTimers", title |-> "Reliable Timers (Survive Save/Load)",
     description |-> "Schedule actions that persist across saves"],
    [key |-> "repeatingTimers", title |-> "Repeating Timer Pattern",
     description |-> "Run checks periodically with ability to stop"]
  >>

ENGINE_HANDLER_TEMPLATES ==
  <<
    [key |-> "globalHandlers", title |-> "Global Script Engine Handlers",
     description |-> "Handlers available in global scripts for world-level events",
     handlers |-> <<
       [name |-> "onNewGame()", context |-> "global",
        description |-> "Called once when a new game starts (not on load). Perfect for mod initialization and welcome messages."],
       [name |-> "onPlayerAdded(player)", context |-> "global",
        description |-> "Called when player is added to the game world. Triggers on new game AND on save load."],
       [name |-> "onActorActive(actor)", context |-> "global",
        description |-> "Called when an NPC or Creature enters an active cell. Use for attaching scripts dynamically or checking conditions."],
       [name |-> "onObjectActive(object) / onItemActive(item)", context |-> "global",
        description |-> "Called when objects/items appear in active cells. Use for detecting dropped quest items or special objects."],
       [name |-> "onActivate(object, actor)", context |-> "global",
        description |-> "Global activation hook called BEFORE local onActivated. Can block activations by returning false."],
       [name |-> "onNewExterior(cell)", context |-> "global",
        description |-> "Called when engine generates a new exterior cell not in content files. Use for procedural world generation."]>>],
    [key |-> "localHandlers", title |-> "Local Script Engine Handlers",
     description |-> "Handlers for scripts attached to specific actors/objects",
     handlers |-> <<
       [name |-> "onActivated(actor)", context |-> "local",
        description |-> "Called when this object is activated by an actor. The most common local handler."],
       [name |-> "onTeleported()", context |-> "local",
        description |-> "Called when the object is teleported via spell, console, or script. Use for updating state after position changes."],
       [name |-> "onConsume(item)", context |-> "local",
        description |-> "Called when this actor consumes an item (potion, ingredient). item.count is already zero."],
       [name |-> "onUpdate(dt)", context |-> "local",
        description |-> "Called every frame for game logic. dt is simulation time delta (0 when paused). Use sparingly for performance."]>>],
    [key |-> "playerHandlers", title |-> "Player Script Engine Handlers",
     description |-> "Handlers exclusive to player scripts for input, UI, and player-specific events",
     handlers |-> <<
       [name |-> "onFrame(dt)", context |-> "player",
        description |-> "Called every frame AFTER input processing. Works even when paused (dt=0). Use for latency-critical UI only."],
       [name |-> "onKeyPress(key) / onKeyRelease(key)", context |-> "player",
        description |-> "Keyboard input handlers. key has symbol, code, withAlt, withShift, withCtrl properties."],
       [name |-> "onMouseButtonPress/Release(button) / onMouseWheel(vertical, horizontal)", context |-> "player",
        description |-> "Mouse input handlers. button is 1=left, 2=middle, 3=right. Wheel values are positive/negative for direction."],
       [name |-> "onControllerButtonPress/Release(id)", context |-> "player",
        description |-> "Gamepad/controller input handlers. Use input.CONTROLLER_BUTTON constants for button IDs."],
       [name |-> "onConsoleCommand(mode, command, selectedObject)", context |-> "player",
        description |-> "Intercept console commands. Return false to consume the command. Useful for debug features and cheats."],
       [name |-> "onQuestUpdate(questId, stage)", context |-> "player",
        description |-> "Called when any quest is updated. Use for quest-dependent features, achievements, or HUD updates."]>>],
    [key |-> "animationHandlers", title |-> "Animation Engine Handlers",
     description |-> "Handlers for animation events and custom animation playback (local scripts only)",
     handlers |-> <<
       [name |-> "onAnimationTextKey(groupname, key)", context |-> "local",
        description |-> "Called when an animation reaches a text key marker. Use for syncing effects, sounds, or actions to animation timing."],
       [name |-> "animation.playBlended / playQueued / playGroup", context |-> "local",
        description |-> "Play custom animations on actors. Use different methods for blending, queuing, or immediate playback."],
       [name |-> "Animation State Machine Pattern", context |-> "local",
        description |-> "Complex animation system with state tracking, transitions, and text key synchronization."],
       [name |-> "VFX Synced to Animation", context |-> "local",
        description |-> "Spawn visual effects synchronized with animation text keys for precise timing."]>>]
  >>

CATEGORY_TEMPLATES ==
  <<
    [key |-> "magic", name |-> "Magic Systems",
     themes |-> <<"magic", "necromancy", "alchemy", "artifacts">>,
     scriptContext |-> "local",
     apis |-> <<"core.magic.spells - Access spell records, costs, effects",
                "types.Actor.activeSpells(actor) - Get active spell effects",
                "types.Actor.activeEffects(actor) - Get all active magic effects",
                "core.magic.enchantments - Enchantment records access",
                "types.Actor.stats - Magicka, willpower, intelligence stats">>,
     examples |-> <<[title |-> "Custom Spell Effect (Local Script)", context |-> "local", code |-> "lua:magic/1"],
                  [title |-> "Spell System Coordinator (Global Script)", context |-> "global", code |-> "lua:magic/2"]>>,
     docLinks |-> <<DOCS_BASE \o "/openmw_core.html#magic",
                    DOCS_BASE \o "/openmw_types.html#Actor">>],
    [key |-> "npc", name |-> "NPC Behaviors",
     themes |-> <<"guilds", "kingdoms", "combat">>,
     scriptContext |-> "local",
     apis |-> <<"types.NPC.record(npc) - Get NPC record data",
                "types.Actor.stats.ai - AIStats (alarm, fight, flee, hello)",
                "core.factions - Faction records and relationships",
                "openmw.interfaces.AI - AI package control",
                "core.dialogue - Dialogue and greeting hooks">>,
     examples |-> <<[title |-> "NPC Schedule System (Local Script)", context |-> "local", code |-> "lua:npc/1"],
                  [title |-> "Faction Reputation Handler (Global Script)", context |-> "global", code |-> "lua:npc/2"]>>,
     docLinks |-> <<DOCS_BASE \o "/openmw_types.html#NPC",
                    DOCS_BASE \o "/openmw_core.html#factions",
                    DOCS_BASE \o "/interfaces.html#AI">>],
    [key |-> "quests", name |-> "Quest Structures",
     themes |-> <<"quests", "exploration">>,
     scriptContext |-> "global",
     apis |-> <<"types.Player.quests(player)[questId]:addJournalEntry(stage, actor) - Quest journal updates",
                "core.sendGlobalEvent - Trigger world events",
                "object:sendEvent - Notify specific objects",
                "async:registerTimerCallback - Delayed quest stages",
                "onSave/onLoad - Persist quest state">>,
     examples |-> <<[title |-> "Multi-Stage Quest (Global Script)", context |-> "global", code |-> "lua:quests/1"],
                  [title |-> "Quest Trigger (Local Script)", context |-> "local", code |-> "lua:quests/2"]>>,
     docLinks |-> <<DOCS_BASE \o "/openmw_core.html#dialogue",
                    DOCS_BASE \o "/openmw_world.html">>],
    [key |-> "economy", name |-> "Economy & Crafting",
     themes |-> <<"economy", "crafting">>,
     scriptContext |-> "local",
     apis |-> <<"types.Actor.inventory(actor) - Inventory management",
                "types.Item.itemData - Item data modification",
                "types.Actor.getBarterGold(actor) - Merchant gold",
                "world.createObject - Create new items",
                "openmw.interfaces.Activation - Custom activation">>,
     examples |-> <<[title |-> "Crafting Station (Local Script)", context |-> "local", code |-> "lua:economy/1"],
                  [title |-> "Crafting Global Coordinator", context |-> "global", code |-> "lua:economy/2"]>>,
     docLinks |-> <<DOCS_BASE \o "/openmw_types.html#Item",
                    DOCS_BASE \o "/openmw_types.html#Container">>],
    [key |-> "combat", name |-> "Combat & Artifacts",
     themes |-> <<"combat", "artifacts", "dragons">>,
     scriptContext |-> "local",
     apis |-> <<"types.Weapon.record - Weapon stats access",
                "types.Armor.record - Armor stats access",
                "types.Actor.getEquipment - Equipment slots",
                "types.Actor.stats.dynamic - Health, fatigue",
                "openmw.interfaces.Combat - Combat state">>,
     examples |-> <<[title |-> "Artifact Weapon Effect (Local Script)", context |-> "local", code |-> "lua:combat/1"],
                  [title |-> "Combat Enhancement (Player Script)", context |-> "player", code |-> "lua:combat/2"]>>,
     docLinks |-> <<DOCS_BASE \o "/openmw_types.html#Weapon",
                    DOCS_BASE \o "/openmw_types.html#Armor",
                    DOCS_BASE \o "/interfaces.html#Combat">>],
    [key |-> "uiHud", name |-> "UI & HUD Systems",
     themes |-> <<"ui", "hud", "menus">>,
     scriptContext |-> "player",
     apis |-> <<"openmw.ui - Create HUD elements, windows, templates",
                "ui.create(layout) - Create UI element",
                "ui.TYPE.Widget/Text/Image - UI element types",
                "ui.layers - HUD, Windows, Notification layers",
                "ui.templates - Built-in UI templates",
                "openmw.util.vector2 - Position and size",
                "openmw.util.color - Color manipulation">>,
     examples |-> <<[title |-> "Custom Health Bar HUD (Player Script)", context |-> "player", code |-> "lua:uiHud/1"],
                  [title |-> "Custom Menu Window (Player Script)", context |-> "player", code |-> "lua:uiHud/2"]>>,
     docLinks |-> <<DOCS_BASE \o "/openmw_ui.html",
                    DOCS_BASE \o "/openmw_util.html">>],
    [key |-> "soundAmbience", name |-> "Sound & Ambience",
     themes |-> <<"sounds", "ambience", "music">>,
     scriptContext |-> "local",
     apis |-> <<"core.sound.playSound3d(soundId, object, options) - Play 3D sound",
                "core.sound.playSound(soundId, options) - Play 2D sound",
                "core.sound.stopSound(soundId, object) - Stop playing sound",
                "core.sound.isSoundPlaying(soundId, object) - Check if sound playing",
                "core.sound.say(fileName, object) - Play voice file">>,
     examples |-> <<[title |-> "Ambient Sound Zone (Local Script)", context |-> "local", code |-> "lua:soundAmbience/1"],
                  [title |-> "Dynamic Music System (Player Script)", context |-> "player", code |-> "lua:soundAmbience/2"]>>,
     docLinks |-> <<DOCS_BASE \o "/openmw_core.html#sound">>],
    [key |-> "vfxAnimation", name |-> "Visual Effects & Animation",
     themes |-> <<"vfx", "animation">>,
     scriptContext |-> "local",
     apis |-> <<"openmw.animation.playQueued(object, group, opts) - Queue animation",
                "openmw.animation.playBlended(object, group, opts) - Blend animation",
                "openmw.animation.hasAnimation(object, group) - Check if animation exists",
                "openmw.animation.getActiveGroup(object, boneGroup) - Get current animation",
                "openmw.animation.clearAnimationQueue(object) - Clear queued animations",
                "core.vfx.spawn(staticId, position) - Spawn visual effect">>,
     examples |-> <<[title |-> "Custom Animation Controller (Local Script)", context |-> "local", code |-> "lua:vfxAnimation/1"],
                  [title |-> "VFX Spawner (Global Script)", context |-> "global", code |-> "lua:vfxAnimation/2"]>>,
     docLinks |-> <<DOCS_BASE \o "/openmw_animation.html",
                    DOCS_BASE \o "/openmw_vfx.html">>],
    [key |-> "worldEnvironment", name |-> "World & Environment",
     themes |-> <<"weather", "terrain", "world">>,
     scriptContext |-> "global",
     apis |-> <<"openmw.world.activeActors - All active actors in loaded cells",
                "openmw.world.players - All players (usually just one)",
                "openmw.world.cells - Access to world cells",
                "openmw.world.getCellByName(name) - Get cell by name",
                "openmw.world.getCellById(id) - Get cell by ID",
                "openmw.world.createObject(recordId, count) - Create new objects",
                "openmw.core.getGameTime() - Current game time in seconds">>,
     examples |-> <<[title |-> "Dynamic Weather Events (Global Script)", context |-> "global", code |-> "lua:worldEnvironment/1"],
                  [title |-> "Region Controller (Global Script)", context |-> "global", code |-> "lua:worldEnvironment/2"]>>,
     docLinks |-> <<DOCS_BASE \o "/openmw_world.html",
                    DOCS_BASE \o "/openmw_core.html">>],
    [key |-> "cameraControls", name |-> "Camera & Controls",
     themes |-> <<"camera", "controls">>,
     scriptContext |-> "player",
     apis |-> <<"openmw.camera.getMode() - Get current camera mode",
                "openmw.camera.setMode(mode) - Set camera mode",
                "openmw.camera.MODE - FirstPerson, ThirdPerson, etc",
                "openmw.camera.getPosition() - Camera world position",
                "openmw.camera.getYaw/getPitch - Camera angles",
                "openmw.input.registerAction - Register custom action",
                "openmw.input.bindAction - Bind key to action",
                "openmw.input.isKeyPressed - Check if key is down">>,
     examples |-> <<[title |-> "Cinematic Camera (Player Script)", context |-> "player", code |-> "lua:cameraControls/1"],
                  [title |-> "Custom Keybinding System (Player Script)", context |-> "player", code |-> "lua:cameraControls/2"]>>,
     docLinks |-> <<DOCS_BASE \o "/openmw_camera.html",
                    DOCS_BASE \o "/openmw_input.html">>],
    [key |-> "storageData", name |-> "Storage & Data",
     themes |-> <<"data", "storage", "settings">>,
     scriptContext |-> "global",
     apis |-> <<"openmw.storage.globalSection(key) - Global persistent storage",
                "openmw.storage.playerSection(key) - Per-player storage",
                "openmw.storage.LIFE_TIME - Temporary/Persistent",
                "section:get(key) - Get stored value",
                "section:set(key, value) - Set stored value",
                "openmw.interfaces.Settings - Mod settings menu">>,
     examples |-> <<[title |-> "Mod Settings System (Global Script)", context |-> "global", code |-> "lua:storageData/1"],
                  [title |-> "Player Progress Tracker (Player Script)", context |-> "player", code |-> "lua:storageData/2"]>>,
     docLinks |-> <<DOCS_BASE \o "/openmw_storage.html",
                    DOCS_BASE \o "/interfaces.html#Settings">>],
    [key |-> "stealthSneaking", name |-> "Stealth & Sneaking",
     themes |-> <<"stealth", "sneaking">>,
     scriptContext |-> "local",
     apis |-> <<"types.Actor.stats.dynamic - Health, magicka, fatigue",
                "types.Actor.stats.ai - Alarm, fight, flee, hello",
                "types.Actor.isSneaking(actor) - Check sneak state",
                "nearby.actors - Detect nearby NPCs",
                "openmw.interfaces.AI - Control detection behavior">>,
     examples |-> <<[title |-> "Stealth Detection System (Local Script)", context |-> "local", code |-> "lua:stealthSneaking/1"],
                  [title |-> "Assassination System (Player Script)", context |-> "player", code |-> "lua:stealthSneaking/2"]>>,
     docLinks |-> <<DOCS_BASE \o "/openmw_types.html#Actor",
                    DOCS_BASE \o "/openmw_nearby.html">>],
    [key |-> "dialogueBooks", name |-> "Dialogue & Books",
     themes |-> <<"dialogue", "books", "lore">>,
     scriptContext |-> "local",
     apis |-> <<"core.dialogue - Dialogue system access",
                "types.Book.record(book) - Get book record data",
                "types.Book.record(book).text - Book content",
                "types.Book.record(book).skill - Skill book association",
                "object:sendEvent - Trigger dialogue events">>,
     examples |-> <<[title |-> "Dynamic Dialogue System (Local Script)", context |-> "local", code |-> "lua:dialogueBooks/1"],
                  [title |-> "Book Collection System (Player Script)", context |-> "player", code |-> "lua:dialogueBooks/2"]>>,
     docLinks |-> <<DOCS_BASE \o "/openmw_core.html#dialogue",
                    DOCS_BASE \o "/openmw_types.html#Book">>]
  >>

(* ---- array helpers (Array.prototype.includes / Object.values order) ---- *)
Range(s) == {s[i] : i \in DOMAIN s}

includes(arr, x) == \E i \in DOMAIN arr : arr[i] = x

\* CATEGORY_TEMPLATES.<key>
CategoryByKey(key) ==
  CATEGORY_TEMPLATES[CHOOSE i \in DOMAIN CATEGORY_TEMPLATES : CATEGORY_TEMPLATES[i].key = key]

(* ---- getRelevantTemplates ---- *)
\* mutant: every requested tag must be a tag of the entry (every for some)
categoryMatches_Every(themes, category) ==
  \A j \in DOMAIN themes : includes(category.themes, themes[j])

\* mutant: the includes call is dropped, so the callback is always truthy
categoryMatches_Truthy(themes, category) ==
  \E j \in DOMAIN themes : TRUE

\* themes.some(theme => category.themes.includes(theme))
categoryMatches(themes, category) ==
  \E j \in DOMAIN themes : includes(category.themes, themes[j])

\* mutant: matched entries are put in front (unshift for push)
RECURSIVE relevantLoop_Unshift(_, _, _)
relevantLoop_Unshift(themes, i, relevant) ==
  IF i > Len(CATEGORY_TEMPLATES) THEN relevant
  ELSE relevantLoop_Unshift(themes, i + 1,
         IF \E j \in DOMAIN themes : includes(CATEGORY_TEMPLATES[i].themes, themes[j])
         THEN <<CATEGORY_TEMPLATES[i]>> \o relevant
         ELSE relevant)

\* mutant: an entry is pushed once per requested tag that hits it
RECURSIVE pushPerTheme(_, _, _, _)
pushPerTheme(themes, j, category, relevant) ==
  IF j > Len(themes) THEN relevant
  ELSE pushPerTheme(themes, j + 1, category,
         IF includes(category.themes, themes[j]) THEN Append(relevant, category) ELSE relevant)

RECURSIVE relevantLoop_PerTheme(_, _, _)
relevantLoop_PerTheme(themes, i, relevant) ==
  IF i > Len(CATEGORY_TEMPLATES) THEN relevant
  ELSE relevantLoop_PerTheme(themes, i + 1,
         pushPerTheme(themes, 1, CATEGORY_TEMPLATES[i], relevant))

\* the for loop over Object.values(CATEGORY_TEMPLATES), from entry i on
RECURSIVE relevantLoop(_, _, _)
relevantLoop(themes, i, relevant) ==
  IF i > Len(CATEGORY_TEMPLATES) THEN relevant
  ELSE relevantLoop(themes, i + 1,
         IF categoryMatches(themes, CATEGORY_TEMPLATES[i])
         THEN Append(relevant, CATEGORY_TEMPLATES[i])
         ELSE relevant)

\* mutant: the default entry is pushed unconditionally
withFallback_Always(relevant) == Append(relevant, CategoryByKey("quests"))

\* mutant: the first catalog entry is used as the default
withFallback_First(relevant) ==
  IF Len(relevant) = 0 THEN Append(relevant, CATEGORY_TEMPLATES[1]) ELSE relevant

\* mutant: no default entry is pushed
withFallback_None(relevant) == relevant

\* if (relevant.length === 0) relevant.push(CATEGORY_TEMPLATES.quests)
withFallback(relevant) ==
  IF Len(relevant) = 0 THEN Append(relevant, CategoryByKey("quests")) ELSE relevant

\* mutant: the loops are nested the other way round (per requested tag, then
\* per entry, skipping entries already taken), so the request order decides
RECURSIVE themeMajorLoop(_, _, _)
themeMajorLoop(themes, j, relevant) ==
  IF j > Len(themes) THEN relevant
  ELSE themeMajorLoop(themes, j + 1,
         relevant \o SelectSeq(CATEGORY_TEMPLATES,
                       LAMBDA c : includes(c.themes, themes[j]) /\ ~includes(relevant, c)))

getRelevantTemplates_ThemeMajor(themes) == withFallback(themeMajorLoop(themes, 1, <<>>))

\* mutant: a request with a tag of no entry is answered by the default alone
getRelevantTemplates_RejectUnknown(themes) ==
  IF \E j \in DOMAIN themes :
       \A i \in DOMAIN CATEGORY_TEMPLATES : ~includes(CATEGORY_TEMPLATES[i].themes, themes[j])
  THEN <<CategoryByKey("quests")>>
  ELSE withFallback(relevantLoop(themes, 1, <<>>))

getRelevantTemplates(themes) == withFallback(relevantLoop(themes, 1, <<>>))

(* ---- text helpers ---- *)
\* the tokens of arr[1], arr[2], ... one after another
RECURSIVE Flatten(_)
Flatten(arr) == IF arr = <<>> THEN <<>> ELSE Head(arr) \o Flatten(Tail(arr))

\* Array.prototype.join: the elements with sep between neighbours
RECURSIVE join(_, _)
join(arr, sep) ==
  IF arr = <<>> THEN <<>>
  ELSE IF Len(arr) = 1 THEN <<arr[1]>>
  ELSE <<arr[1], sep>> \o join(Tail(arr), sep)

Map(arr, F(_)) == [i \in DOMAIN arr |-> F(arr[i])]

(* ---- buildSystemPrompt ---- *)
\* the section rendered for one matched template
templateSection(template) ==
  <<"\n### ", template.name, " (", template.scriptContext, " script context)\n">>
  \o <<"APIs:\n">> \o join(Map(template.apis, LAMBDA api : "- " \o api), "\n") \o <<"\n">>
  \o Flatten(Map(template.examples, LAMBDA example :
       <<"\n**", example.title, " (", example.context, " script):**\n[fence]lua\n",
         example.code, "\n[fence]\n">>))
  \o <<"Docs: ">> \o join(template.docLinks, ", ") \o <<"\n">>

\* mutant: each section is put in front of the text built so far
categoryContext_Prepend(relevantTemplates) ==
  Flatten([i \in DOMAIN relevantTemplates |->
             templateSection(relevantTemplates[Len(relevantTemplates) + 1 - i])])

\* mutant: a documentation link already rendered for an earlier template is
\* left out
RECURSIVE dedupSections(_, _)
dedupSections(relevantTemplates, seen) ==
  IF relevantTemplates = <<>> THEN <<>>
  ELSE LET t == Head(relevantTemplates)
           fresh == SelectSeq(t.docLinks, LAMBDA l : l \notin seen)
       IN templateSection([t EXCEPT !.docLinks = fresh])
          \o dedupSections(Tail(relevantTemplates), seen \cup Range(t.docLinks))

categoryContext_DedupDocs(relevantTemplates) == dedupSections(relevantTemplates, {})

\* categoryContext: starts empty, one section per relevant template, in order
categoryContext(relevantTemplates) == Flatten(Map(relevantTemplates, templateSection))

omwscriptsFlagOf(ctx) ==
  IF "omwscriptsFlag" \in DOMAIN ctx THEN <<ctx.omwscriptsFlag>>
  ELSE join(ctx.omwscriptsFlags, ", ")

\* mutant: contexts without a single omwscriptsFlag are skipped
scriptContextRef_SingleFlagOnly ==
  <<"\n## Script Contexts:\n">>
  \o Flatten(Map(SelectSeq(SCRIPT_CONTEXT_TEMPLATES, LAMBDA c : "omwscriptsFlag" \in DOMAIN c),
       LAMBDA ctx :
       <<"\n### ", ctx.name, " (", ctx.omwscriptsFlag, ")\n">>
       \o <<ctx.description, "\n">>
       \o <<"Access: ">> \o join(ctx.access, ", ") \o <<"\n">>))

scriptContextRef ==
  <<"\n## Script Contexts:\n">>
  \o Flatten(Map(SCRIPT_CONTEXT_TEMPLATES, LAMBDA ctx :
       <<"\n### ", ctx.name, " (">> \o omwscriptsFlagOf(ctx) \o <<")\n">>
       \o <<ctx.description, "\n">>
       \o <<"Access: ">> \o join(ctx.access, ", ") \o <<"\n">>))

titledList(header, templates) ==
  <<header>>
  \o Flatten(Map(templates, LAMBDA t : <<"\n**", t.title, ":** ", t.description, "\n">>))

interfaceRef == titledList("\n## Interfaces:\n", INTERFACE_TEMPLATES)

eventRef == titledList("\n## Events:\n", EVENT_TEMPLATES)

multiStageRef == titledList("\n## Multi-Stage Patterns:\n", MULTI_STAGE_TEMPLATES)

engineHandlerRef ==
  <<"\n## Engine Handlers Reference:\n",
    "Use these handlers to respond to game events. Choose the right handler for the right script context.\n">>
  \o Flatten(Map(ENGINE_HANDLER_TEMPLATES, LAMBDA category :
       <<"\n### ", category.title, "\n", category.description, "\n">>
       \o Flatten(Map(category.handlers, LAMBDA handler :
            <<"- **", handler.name, "** (", handler.context, "): ", handler.description, "\n">>))))

\* the tag vocabulary named in the last line of the prompt
PROMPT_TAGS ==
  <<"magic", "kingdoms", "dragons", "quests", "crafting", "combat", "economy",
    "exploration", "necromancy", "alchemy", "guilds", "artifacts">>

\* mutant: the category section is interpolated before the fixed catalogs
promptAround_CategoryFirst(context) ==
  <<"You are a creative mod idea generator for OpenMW (Morrowind). [...]\n\n",
    "Your responses must be valid JSON with this exact structure: [...]\n\n",
    "## Core Modules & Documented APIs: [...]\n\n">>
  \o <<"\n\n## Category-Specific Patterns:\n">>
  \o context
  \o scriptContextRef \o <<"\n">>
  \o interfaceRef \o <<"\n">>
  \o eventRef \o <<"\n">>
  \o multiStageRef \o <<"\n">>
  \o engineHandlerRef
  \o <<"\n\n## Script Lifecycle Handlers (CRITICAL): [...]\n\n",
       "## CRITICAL Requirements: [...]\n\n",
       "## .omwscripts Example Patterns:\n[fence]\n", "OMWSCRIPTS_PATTERNS.complexMod", "\n[fence]\n\n",
       "## Communication Flow: [...]\n\n",
       "Tags must be from: ">>
  \o join(PROMPT_TAGS, ", ")

\* the returned template literal around the computed category context; the
\* literal blocks between the interpolations are one token each
promptAround(context) ==
  <<"You are a creative mod idea generator for OpenMW (Morrowind). [...]\n\n",
    "Your responses must be valid JSON with this exact structure: [...]\n\n",
    "## Core Modules & Documented APIs: [...]\n\n">>
  \o scriptContextRef \o <<"\n">>
  \o interfaceRef \o <<"\n">>
  \o eventRef \o <<"\n">>
  \o multiStageRef \o <<"\n">>
  \o engineHandlerRef
  \o <<"\n\n## Category-Specific Patterns:\n">>
  \o context
  \o <<"\n\n## Script Lifecycle Handlers (CRITICAL): [...]\n\n",
       "## CRITICAL Requirements: [...]\n\n",
       "## .omwscripts Example Patterns:\n[fence]\n", "OMWSCRIPTS_PATTERNS.complexMod", "\n[fence]\n\n",
       "## Communication Flow: [...]\n\n",
       "Tags must be from: ">>
  \o join(PROMPT_TAGS, ", ")

\* mutant: categoryContext lives at module level and is never reset, so the
\* sections of earlier calls stay in it
buildSystemPrompt_Retained(arg) ==
  promptAround(Flatten([i \in DOMAIN calls |-> categoryContext(getRelevantTemplates(calls[i].themes))])
               \o categoryContext(getRelevantTemplates(arg)))

buildSystemPrompt(themes) == promptAround(categoryContext(getRelevantTemplates(themes)))

(* ---- JSON values of the request body ---- *)
Undefined == [t |-> "undefined"]
Str(x) == [t |-> "string", s |-> x]
Num(x) == [t |-> "number", n |-> x]
Bool(x) == [t |-> "boolean", b |-> x]
Arr(x) == [t |-> "array", v |-> x]

\* truthiness, as seen by || and by if
truthy(x) ==
  CASE x.t = "undefined" -> FALSE
    [] x.t = "string" -> x.s # ""
    [] x.t = "number" -> x.n # 0
    [] x.t = "boolean" -> x.b
    [] OTHER -> TRUE

\* x || d
orElse(x, d) == IF truthy(x) THEN x ELSE d

(* ---- the prompts built by the request handler ---- *)
\* an object literal inherits the members of Object.prototype: a lookup by a
\* key the literal does not own finds the inherited member, and a template
\* literal or join renders a function by its source text
ObjectPrototype ==
  [k \in {"constructor", "toString", "valueOf", "hasOwnProperty"} |->
     "function " \o (IF k = "constructor" THEN "Object" ELSE k) \o "() { [native code] }"]

\* obj[key] || fallback, for an object literal of strings
lookupOr(obj, key, fallback) ==
  IF key \in DOMAIN obj THEN obj[key]
  ELSE IF key \in DOMAIN ObjectPrototype THEN ObjectPrototype[key]
  ELSE fallback

complexityDescriptions ==
  [k \in {"simple", "quest-mod", "overhaul"} |->
     CASE k = "simple" -> "a simple tweak or small addition [...]"
       [] k = "quest-mod" -> "a medium-sized quest mod with a storyline [...]"
       [] k = "overhaul" -> "a comprehensive overhaul that changes core systems [...]"]

\* complexityDescriptions[complexity] || complexityDescriptions['quest-mod']
complexityText(complexity) ==
  IF complexity.t = "string"
  THEN lookupOr(complexityDescriptions, complexity.s, complexityDescriptions["quest-mod"])
  ELSE complexityDescriptions["quest-mod"]

packageDescriptions ==
  [k \in {"openmw.core", "openmw.types", "openmw.world", "openmw.self", "openmw.nearby",
          "openmw.async", "openmw.util", "openmw.ui", "openmw.camera", "openmw.input",
          "openmw.storage", "openmw.interfaces", "openmw.animation", "openmw_aux.time"} |->
     CASE k = "openmw.core" -> "openmw.core (events, dialogue, factions, quests, sound)"
       [] k = "openmw.types" -> "openmw.types (Actor, NPC, Item, Creature type records)"
       [] k = "openmw.world" -> "openmw.world (create objects, access cells, spawn - Global only)"
       [] k = "openmw.self" -> "openmw.self (reference to attached object - Local only)"
       [] k = "openmw.nearby" -> "openmw.nearby (find nearby objects/actors - Local only)"
       [] k = "openmw.async" -> "openmw.async (timers and callbacks)"
       [] k = "openmw.util" -> "openmw.util (vectors, colors, transforms)"
       [] k = "openmw.ui" -> "openmw.ui (HUD and menu creation - Player only)"
       [] k = "openmw.camera" -> "openmw.camera (camera mode and control - Player only)"
       [] k = "openmw.input" -> "openmw.input (key bindings - Player only)"
       [] k = "openmw.storage" -> "openmw.storage (persistent data storage)"
       [] k = "openmw.interfaces" -> "openmw.interfaces (AI, Controls, Activation, Camera, Combat)"
       [] k = "openmw.animation" -> "openmw.animation (animation playback - Local only)"
       [] k = "openmw_aux.time" -> "openmw_aux.time (repeating timers helper)"]

\* packageDescriptions[pkg] || pkg
packageLine(pkg) == lookupOr(packageDescriptions, pkg, pkg)

\* mutant: the section is built without looking at the length of the list
apiPackageInstructions_NoGuard(selectedApiPackages) ==
  <<"\n\nPRIORITIZED API PACKAGES - The user specifically wants the generated code to focus on these OpenMW Lua packages:\n- ">>
  \o join(Map(selectedApiPackages, packageLine), "\n- ")
  \o <<"\n\nMake sure your implementation hints prominently feature these packages with practical examples. Design the mod concept around capabilities these packages provide.">>

apiPackageInstructions(selectedApiPackages) ==
  IF Len(selectedApiPackages) > 0
  THEN <<"\n\nPRIORITIZED API PACKAGES - The user specifically wants the generated code to focus on these OpenMW Lua packages:\n- ">>
       \o join(Map(selectedApiPackages, packageLine), "\n- ")
       \o <<"\n\nMake sure your implementation hints prominently feature these packages with practical examples. Design the mod concept around capabilities these packages provide.">>
  ELSE <<>>

randomThemes ==
  <<"magic", "quests", "combat", "guilds", "alchemy", "exploration", "artifacts", "necromancy">>

\* mutant: each of the two tags is drawn on its own
PickedThemes_Independent ==
  {<<randomThemes[i], randomThemes[j]>> : i, j \in DOMAIN randomThemes}

\* shuffled.slice(0, 2) for some outcome of the comparator-driven sort: the
\* first two elements of a rearrangement of randomThemes
PickedThemes ==
  {<<randomThemes[i], randomThemes[j]>> : i, j \in DOMAIN randomThemes} \
  {<<randomThemes[i], randomThemes[i]>> : i \in DOMAIN randomThemes}

randomUserPrompt(pickedThemes, selectedApiPackages) ==
  <<"Generate a completely random and creative OpenMW mod idea combining themes: ">>
  \o join(pickedThemes, " and ")
  \o <<".\nThe complexity should be: ", complexityDescriptions["quest-mod"],
       "\nSurprise me with an unexpected, lore-friendly concept that would fit in Morrowind!\n\nIMPORTANT: [...]">>
  \o apiPackageInstructions(selectedApiPackages)

formUserPrompt(body, selectedThemes, selectedApiPackages) ==
  LET themeContext == getRelevantTemplates(selectedThemes)
      themeNames == join(Map(themeContext, LAMBDA c : c.name), ", ")
  IN <<"Generate an OpenMW mod idea for a ", orElse(body.gameType, Str("rpg")).s,
       " playstyle with these themes: ">>
     \o join(selectedThemes, ", ")
     \o <<".\nFocus on these modding categories: ">> \o themeNames
     \o <<"\nThe complexity should be: ", complexityText(body.complexity), ".\n">>
     \o (IF truthy(body.customNotes)
         THEN <<"Additional inspiration/notes from the user: ", body.customNotes.s>>
         ELSE <<>>)
     \o <<"\n\nCRITICAL REQUIREMENTS: [...]">>
     \o apiPackageInstructions(selectedApiPackages)

(* ---- the model's reply and the response built from it ---- *)
\* content.match(code block) / content.match(braces) / JSON.parse: the reply
\* text is JSON, JSON in a code fence, JSON inside prose, or text without JSON
parseContent(content) ==
  IF content.wrap \in {"plain", "fenced", "prose"}
  THEN [ok |-> TRUE, value |-> content.json]
  ELSE [ok |-> FALSE]

\* mutant: on common names the field written first is kept
spread_FirstWins(f, g) ==
  [k \in DOMAIN f \cup DOMAIN g |-> IF k \in DOMAIN f THEN f[k] ELSE g[k]]

\* object spread: the fields of g added to f, g winning on common names
spread(f, g) ==
  [k \in DOMAIN f \cup DOMAIN g |-> IF k \in DOMAIN g THEN g[k] ELSE f[k]]

\* { id: crypto.randomUUID(), ...modIdea, complexity, gameType, createdAt }
completeIdea(uuid, modIdea, body) ==
  spread(spread([id |-> uuid], modIdea),
         [complexity |-> orElse(body.complexity, Str("quest-mod")).s,
          gameType |-> orElse(body.gameType, Str("rpg")).s,
          createdAt |-> "new Date().toISOString()"])

errorResponse(status, message) == [status |-> status, body |-> [error |-> message]]

(* ---- requested tag lists ---- *)
\* every tag that occurs in the themes of some catalog entry
CatalogTags == UNION {Range(CATEGORY_TEMPLATES[i].themes) : i \in DOMAIN CATEGORY_TEMPLATES}

\* tags of no entry: a made-up one and one that differs from a catalog tag by case
UnknownTags == {"bogus", "Magic"}

Tags == CatalogTags \cup UnknownTags

ListsOver(S, n) == UNION {[1..k -> S] : k \in 0..n}

TagLists == ListsOver(Tags, MaxLen)

\* tags used in the bodies of the requests the handler serves
HandlerTags == {"magic", "bogus"}

\* values of the themes field: absent, not an array, or an array of tags
ThemesValues == {Undefined, Num(5)} \cup {Arr(l) : l \in ListsOver(HandlerTags, MaxLen)}

\* request bodies sent by a form submit or by any other caller
FormBodies ==
  [gameType : {Undefined},
   themes : ThemesValues,
   complexity : {Undefined},
   customNotes : {Undefined},
   isRandom : {Undefined},
   apiPackages : {Undefined, Arr(<<"openmw.ui", "my.pkg">>)}]
  \cup
  [gameType : {Str("sandbox")},
   themes : {Arr(<<"magic">>)},
   complexity : {Str("overhaul"), Str("epic")},
   customNotes : {Str("notes")},
   isRandom : {Bool(FALSE)},
   apiPackages : {Arr(<<>>), Arr(<<"constructor", "openmw.core">>)}]

\* request bodies with the random flag set
RandomBodies ==
  [gameType : {Undefined},
   themes : {Undefined, Arr(<<"magic">>)},
   complexity : {Undefined},
   customNotes : {Undefined},
   isRandom : {Bool(TRUE)},
   apiPackages : {Undefined}]
  \cup
  [gameType : {Undefined},
   themes : {Undefined},
   complexity : {Undefined},
   customNotes : {Undefined},
   isRandom : {Bool(TRUE)},
   apiPackages : {Arr(<<"openmw.ui">>)}]

Bodies == FormBodies \cup RandomBodies

\* what the model endpoint can answer
Replies ==
  [kind : {"status"}, status : {429, 402, 503}]
  \cup [kind : {"rejected"}]
  \cup [kind : {"ok"}, content : {[wrap |-> "none"], [wrap |-> "text"]}]
  \cup [kind : {"ok"},
        content : [wrap : {"plain", "fenced"},
                   json : {[title |-> "T"],
                           [title |-> "T", id |-> "id-of-model", complexity |-> "simple"]}]]

Slots == 1..MaxRequests

NoBody == [t |-> "none"]
NoMessages == [systemPrompt |-> <<>>, userPrompt |-> <<>>]
NoResponse == [status |-> 0, body |-> [t |-> "none"]]
NoCall == [calls |-> 0, reply |-> [kind |-> "none"]]

\* generatedIdea before any generation, and between a click and its result
Null == [t |-> "null"]
NoCallYet == [op |-> "none"]

\* the page as it is first rendered: useLocalStorage(STORAGE_KEY, []),
\* useState([]), useState(false), useState(null)
PageIdle ==
  /\ savedIdeas = <<>>
  /\ lastCall = NoCallYet
  /\ formThemes = <<>>
  /\ isGenerating = FALSE
  /\ generatedIdea = Null
  /\ inFlight = <<>>

HandlerIdle ==
  /\ pc = [r \in Slots |-> "idle"]
  /\ request = [r \in Slots |-> NoBody]
  /\ sent = [r \in Slots |-> NoMessages]
  /\ response = [r \in Slots |-> NoResponse]
  /\ calls = <<>>
  /\ uuids = 0
  /\ gateway = [r \in Slots |-> NoCall]

(* ---- the matcher applied to one enumerated input ---- *)
MatchInit ==
  /\ requestedTags \in TagLists
  /\ matched = <<>>
  /\ mpc = "call"
  /\ apiKey = TRUE
  /\ HandlerIdle
  /\ PageIdle

CallGetRelevantTemplates ==
  /\ mpc = "call"
  /\ matched' = getRelevantTemplates(requestedTags)
  /\ mpc' = "return"
  /\ UNCHANGED requestedTags
  /\ UNCHANGED hvars
  /\ UNCHANGED pvars

MatchNext == CallGetRelevantTemplates

MatchSpec == MatchInit /\ [][MatchNext]_vars

(* ---- the composer applied to a sequence of enumerated inputs ---- *)
ComposeInit ==
  /\ requestedTags = <<>>
  /\ matched = <<>>
  /\ mpc = "off"
  /\ apiKey = TRUE
  /\ HandlerIdle
  /\ PageIdle

CallBuildSystemPrompt(arg) ==
  /\ Len(calls) < MaxCalls
  /\ calls' = Append(calls, [themes |-> arg, systemPrompt |-> buildSystemPrompt(arg)])
  /\ UNCHANGED <<apiKey, pc, request, sent, response, uuids, gateway>>
  /\ UNCHANGED mvars
  /\ UNCHANGED pvars

ComposeNext == \E arg \in ListsOver(HandlerTags, MaxLen) : CallBuildSystemPrompt(arg)

ComposeSpec == ComposeInit /\ [][ComposeNext]_vars

(* ---- the composer applied to one enumerated input ---- *)
RenderInit ==
  /\ requestedTags \in TagLists
  /\ matched = <<>>
  /\ mpc = "call"
  /\ apiKey = TRUE
  /\ HandlerIdle
  /\ PageIdle

\* one buildSystemPrompt call: matched is its local relevantTemplates
CallBuildSystemPromptOnce ==
  /\ mpc = "call"
  /\ matched' = getRelevantTemplates(requestedTags)
  /\ calls' = <<[themes |-> requestedTags, systemPrompt |-> buildSystemPrompt(requestedTags)]>>
  /\ mpc' = "return"
  /\ UNCHANGED requestedTags
  /\ UNCHANGED <<apiKey, pc, request, sent, response, uuids, gateway>>
  /\ UNCHANGED pvars

RenderNext == CallBuildSystemPromptOnce

RenderSpec == RenderInit /\ [][RenderNext]_vars

(* ---- the saved-ideas hook applied to enumerated calls ---- *)
IdeaIds == {"id-" \o ToString(n) : n \in 1..MaxIdeas}

\* ideas as the store sees them: the id and the rest of the record
Ideas == [id : IdeaIds, title : {"T", "U"}]

\* mutant: an idea whose id is present replaces the saved one
saveIdeaUpdater_Upsert(prev, idea) ==
  IF \E i \in DOMAIN prev : prev[i].id = idea.id
  THEN [i \in DOMAIN prev |-> IF prev[i].id = idea.id THEN idea ELSE prev[i]]
  ELSE Append(prev, idea)

\* (prev) => prev.some((i) => i.id === idea.id) ? prev : [...prev, idea]
saveIdeaUpdater(prev, idea) ==
  IF \E i \in DOMAIN prev : prev[i].id = idea.id THEN prev ELSE Append(prev, idea)

\* mutant: the first saved idea is taken out when the id is found
removeIdeaUpdater_First(prev, ideaId) ==
  IF \E i \in DOMAIN prev : prev[i].id = ideaId THEN Tail(prev) ELSE prev

\* (prev) => prev.filter((i) => i.id !== ideaId)
removeIdeaUpdater(prev, ideaId) == SelectSeq(prev, LAMBDA i : i.id # ideaId)

\* savedIdeas.some((i) => i.id === ideaId)
isIdeaSaved(ideaId) == \E i \in DOMAIN savedIdeas : savedIdeas[i].id = ideaId

\* the setter returned by useLocalStorage: the store takes the new value
setSavedIdeas(value) == savedIdeas' = value

StoreFrame ==
  /\ UNCHANGED <<formThemes, isGenerating, generatedIdea, inFlight>>
  /\ UNCHANGED hvars
  /\ UNCHANGED mvars

saveIdea(idea) ==
  /\ setSavedIdeas(saveIdeaUpdater(savedIdeas, idea))
  /\ lastCall' = [op |-> "saveIdea", idea |-> idea]
  /\ StoreFrame

removeIdea(ideaId) ==
  /\ setSavedIdeas(removeIdeaUpdater(savedIdeas, ideaId))
  /\ lastCall' = [op |-> "removeIdea", ideaId |-> ideaId]
  /\ StoreFrame

clearAllIdeas ==
  /\ setSavedIdeas(<<>>)
  /\ lastCall' = [op |-> "clearAllIdeas"]
  /\ StoreFrame

StoreInit ==
  /\ requestedTags = <<>>
  /\ matched = <<>>
  /\ mpc = "off"
  /\ apiKey = TRUE
  /\ HandlerIdle
  /\ PageIdle

StoreNext ==
  \/ \E idea \in Ideas : saveIdea(idea)
  \/ \E ideaId \in IdeaIds : removeIdea(ideaId)
  \/ clearAllIdeas

StoreSpec == StoreInit /\ [][StoreNext]_vars

(* ---- the generator form and the page that invokes the edge function ---- *)
THEME_TAGS ==
  <<"magic", "kingdoms", "dragons", "quests", "crafting", "combat", "economy", "exploration",
    "necromancy", "alchemy", "guilds", "artifacts", "ui", "hud", "menus", "sounds", "ambience",
    "music", "vfx", "animation", "weather", "terrain", "world", "camera", "controls", "data",
    "storage", "settings", "stealth", "sneaking", "dialogue", "books", "lore">>

\* the badges that are clicked in the behaviours enumerated
FormTags == {THEME_TAGS[i] : i \in 1..MaxFormTags}

\* mutant: the selection is sent as it is
submittedThemes_NoDefault(selected) == selected

\* selectedThemes.length > 0 ? selectedThemes : ['magic', 'quests']
submittedThemes(selected) == IF Len(selected) > 0 THEN selected ELSE <<"magic", "quests">>

\* the data handleSubmit hands to onGenerate, the form's other fields untouched
formData(selected) ==
  [gameType |-> Str("rpg"),
   themes |-> Arr(submittedThemes(selected)),
   complexity |-> Str("quest-mod"),
   customNotes |-> Undefined,
   isRandom |-> Undefined,
   apiPackages |-> Undefined]

\* { isRandom: true }
randomData ==
  [gameType |-> Undefined,
   themes |-> Undefined,
   complexity |-> Undefined,
   customNotes |-> Undefined,
   isRandom |-> Bool(TRUE),
   apiPackages |-> Undefined]

\* how an invocation settles: with an idea, with an error payload, with an
\* error of the client, or by throwing
Results ==
  [kind : {"data"}, idea : Ideas] \cup [kind : {"errorPayload", "invokeError", "throws"}]

\* prev.includes(theme) ? prev.filter((t) => t !== theme) : [...prev, theme]
toggleTheme(theme) ==
  /\ formThemes' = IF includes(formThemes, theme)
                   THEN SelectSeq(formThemes, LAMBDA t : t # theme)
                   ELSE Append(formThemes, theme)
  /\ UNCHANGED <<savedIdeas, lastCall, isGenerating, generatedIdea, inFlight>>
  /\ UNCHANGED hvars
  /\ UNCHANGED mvars

\* generateIdea up to its await: the two setters and the invocation
generateIdea(data) ==
  /\ Len(inFlight) < MaxInFlight
  /\ isGenerating' = TRUE
  /\ generatedIdea' = Null
  /\ inFlight' = Append(inFlight, data)
  /\ UNCHANGED <<savedIdeas, lastCall, formThemes>>
  /\ UNCHANGED hvars
  /\ UNCHANGED mvars

\* disabled={isGenerating} of the submit button
submitDisabled == isGenerating

\* mutant: the random button is never disabled
randomDisabled_Never == FALSE

\* disabled={isGenerating} of the random button
randomDisabled == isGenerating

\* the form is submitted: handleSubmit, onGenerate, generateIdea
handleSubmit == ~submitDisabled /\ generateIdea(formData(formThemes))

\* the random button is clicked: handleRandomGenerate, generateIdea
handleRandomGenerate == ~randomDisabled /\ generateIdea(randomData)

\* generateIdea after its await, up to the end of the finally block
AfterInvoke(k, result) ==
  /\ k \in DOMAIN inFlight
  /\ inFlight' = SubSeq(inFlight, 1, k - 1) \o SubSeq(inFlight, k + 1, Len(inFlight))
  /\ generatedIdea' = IF result.kind = "data" THEN result.idea ELSE generatedIdea
  /\ lastCall' = [op |-> "generateIdea", outcome |-> result.kind]
  /\ UNCHANGED <<savedIdeas, formThemes>>
  /\ UNCHANGED hvars
  /\ UNCHANGED mvars

\* mutant: setIsGenerating(false) stands at the end of the try block
Settles_NoFinally(k, result) ==
  /\ AfterInvoke(k, result)
  /\ isGenerating' = IF result.kind = "data" THEN FALSE ELSE isGenerating

\* the invocation settles and generateIdea runs to its end
Settles(k, result) ==
  /\ AfterInvoke(k, result)
  /\ isGenerating' = FALSE

PageInit ==
  /\ requestedTags = <<>>
  /\ matched = <<>>
  /\ mpc = "off"
  /\ apiKey = TRUE
  /\ HandlerIdle
  /\ PageIdle

PageNext ==
  \/ \E theme \in FormTags : toggleTheme(theme)
  \/ handleSubmit
  \/ handleRandomGenerate
  \/ \E k \in 1..MaxInFlight : \E result \in Results : Settles(k, result)

PageSpec == PageInit /\ [][PageNext]_vars

\* every invocation settles in the end
PageFairSpec ==
  PageSpec /\ WF_vars(\E k \in 1..MaxInFlight : \E result \in Results : Settles(k, result))

(* ---- the request handler ---- *)
Init ==
  /\ requestedTags = <<>>
  /\ matched = <<>>
  /\ mpc = "off"
  /\ apiKey \in BOOLEAN
  /\ HandlerIdle
  /\ PageIdle

\* requests arrive one after another; a later one may arrive while earlier
\* ones are still being served
Arrives(r) == pc[r] = "idle" /\ \A q \in Slots : q < r => pc[q] # "idle"

\* the handler returns: its locals are gone
Respond(r, resp) ==
  /\ pc' = [pc EXCEPT ![r] = "done"]
  /\ request' = [request EXCEPT ![r] = NoBody]
  /\ response' = [response EXCEPT ![r] = resp]
  /\ sent' = [sent EXCEPT ![r] = NoMessages]

\* if (req.method === 'OPTIONS') return new Response(null, ...)
Preflight(r) ==
  /\ Arrives(r)
  /\ Respond(r, [status |-> 200, body |-> [t |-> "null"]])
  /\ UNCHANGED <<calls, uuids, apiKey, gateway>>
  /\ UNCHANGED mvars
  /\ UNCHANGED pvars

\* await req.json(): the body of a POST request is parsed
Receive(r, body) ==
  /\ Arrives(r)
  /\ pc' = [pc EXCEPT ![r] = "parsed"]
  /\ request' = [request EXCEPT ![r] = body]
  /\ UNCHANGED <<sent, response, calls, uuids, apiKey, gateway>>
  /\ UNCHANGED mvars
  /\ UNCHANGED pvars

\* await req.json() rejects: the body is not JSON; the catch block answers
ReceiveInvalid(r) ==
  /\ Arrives(r)
  /\ Respond(r, errorResponse(500, "Unexpected token in JSON"))
  /\ UNCHANGED <<calls, uuids, apiKey, gateway>>
  /\ UNCHANGED mvars
  /\ UNCHANGED pvars

\* mutant: the parsed body is kept in one place for all requests, the latest
\* one parsed overwrites it
bodyOf_Shared(r) ==
  LET live == {q \in Slots : request[q] # NoBody}
  IN request[CHOOSE q \in live : \A o \in live : o <= q]

\* const { gameType, themes, ... } = await req.json(): locals of one handler run
bodyOf(r) == request[r]

\* selectedThemes.some is read on a value that is not an array
buildSystemPromptThrows(selectedThemes) == selectedThemes.t # "array"

\* mutant: the body's field is used as it is
selectedThemesOf_NoDefault(body) == body.themes

\* themes || []
selectedThemesOf(body) == orElse(body.themes, Arr(<<>>))

\* from the parsed body to the fetch of the model endpoint, or to the catch
\* block
Compose(r, pickedThemes) ==
  /\ pc[r] = "parsed"
  /\ UNCHANGED <<calls, uuids, apiKey>>
  /\ UNCHANGED mvars
  /\ UNCHANGED pvars
  /\ IF ~apiKey
     THEN Respond(r, errorResponse(500, "LOVABLE_API_KEY is not configured")) /\ UNCHANGED gateway
     ELSE LET body == bodyOf(r)
              selectedThemes == selectedThemesOf(body)
              selectedApiPackages == orElse(body.apiPackages, Arr(<<>>)).v
          IN IF buildSystemPromptThrows(selectedThemes)
             THEN Respond(r, errorResponse(500, "themes.some is not a function"))
                  /\ UNCHANGED gateway
             ELSE LET systemPrompt == buildSystemPrompt(selectedThemes.v)
                      userPrompt ==
                        IF truthy(body.isRandom)
                        THEN randomUserPrompt(pickedThemes, selectedApiPackages)
                        ELSE formUserPrompt(body, selectedThemes.v, selectedApiPackages)
                  IN /\ sent' = [sent EXCEPT ![r] = [systemPrompt |-> systemPrompt,
                                                      userPrompt |-> userPrompt]]
                     /\ pc' = [pc EXCEPT ![r] = "fetching"]
                     /\ gateway' = [gateway EXCEPT ![r].calls = @ + 1]
                     /\ UNCHANGED <<request, response>>

\* the sort and slice run only in the isRandom branch
ComposeAny(r) ==
  IF pc[r] = "parsed" /\ apiKey /\ truthy(bodyOf(r).isRandom)
     /\ ~buildSystemPromptThrows(selectedThemesOf(bodyOf(r)))
  THEN \E pickedThemes \in PickedThemes : Compose(r, pickedThemes)
  ELSE Compose(r, <<>>)

\* mutant: the upstream status is handed on as it is
statusResponse_PassThrough(status) ==
  errorResponse(status, "AI gateway error: " \o ToString(status))

\* if (!response.ok): 429 and 402 are answered as such, any other status throws
statusResponse(status) ==
  CASE status = 429 -> errorResponse(429, "Rate limit exceeded. Please try again in a moment.")
    [] status = 402 -> errorResponse(402, "AI credits exhausted. Please add credits to continue.")
    [] OTHER -> errorResponse(500, "AI gateway error: " \o ToString(status))

\* what the handler does with the settled fetch: status mapping, reply
\* parsing, the response
AfterFetch(r, reply) ==
  CASE reply.kind = "rejected" ->
         Respond(r, errorResponse(500, "fetch failed")) /\ UNCHANGED uuids
    [] reply.kind = "status" ->
         Respond(r, statusResponse(reply.status)) /\ UNCHANGED uuids
    [] reply.kind = "ok" ->
         IF reply.content.wrap = "none"
         THEN Respond(r, errorResponse(500, "No content in AI response")) /\ UNCHANGED uuids
         ELSE LET parsed == parseContent(reply.content)
              IN IF ~parsed.ok
                 THEN /\ Respond(r, errorResponse(500, "Failed to parse mod idea from AI response"))
                      /\ UNCHANGED uuids
                 ELSE /\ uuids' = uuids + 1
                      /\ Respond(r, [status |-> 200,
                                     body |-> completeIdea("uuid-" \o ToString(uuids + 1),
                                                           parsed.value, bodyOf(r))])

\* mutant: a rejected fetch is tried again
Upstream_Retry(r, reply) ==
  /\ pc[r] = "fetching"
  /\ UNCHANGED <<calls, apiKey>>
  /\ UNCHANGED mvars
  /\ UNCHANGED pvars
  /\ IF reply.kind = "rejected"
     THEN /\ gateway' = [gateway EXCEPT ![r] = [calls |-> @.calls + 1, reply |-> reply]]
          /\ UNCHANGED <<pc, request, sent, response, uuids>>
     ELSE /\ gateway' = [gateway EXCEPT ![r].reply = reply]
          /\ AfterFetch(r, reply)

\* the endpoint answers and the handler runs to its return
Upstream(r, reply) ==
  /\ pc[r] = "fetching"
  /\ UNCHANGED <<calls, apiKey>>
  /\ UNCHANGED mvars
  /\ UNCHANGED pvars
  /\ gateway' = [gateway EXCEPT ![r].reply = reply]
  /\ AfterFetch(r, reply)

Next ==
  \/ \E r \in Slots : Preflight(r)
  \/ \E r \in Slots : \E body \in Bodies : Receive(r, body)
  \/ \E r \in Slots : ReceiveInvalid(r)
  \/ \E r \in Slots : ComposeAny(r)
  \/ \E r \in Slots : \E reply \in Replies : Upstream(r, reply)

Spec == Init /\ [][Next]_vars

(* ---- properties of the matcher ---- *)
\* entry e and the request T have a tag in common
SharesTag(e, T) == Range(e.themes) \cap Range(T) # {}

\* position of an entry in the catalog's declaration order
DeclIndex(e) == CHOOSE i \in DOMAIN CATEGORY_TEMPLATES : CATEGORY_TEMPLATES[i] = e

Occurrences(arr, x) == Cardinality({i \in DOMAIN arr : arr[i] = x})

MagicEntry == CategoryByKey("magic")
CombatEntry == CategoryByKey("combat")
QuestsEntry == CategoryByKey("quests")

\* C1: every catalog entry that shares at least one tag with the request is
\* in the result, also when only one of its several tags is requested.
C1_Inclusion ==
  mpc = "return" =>
    \A i \in DOMAIN CATEGORY_TEMPLATES :
      SharesTag(CATEGORY_TEMPLATES[i], requestedTags) => includes(matched, CATEGORY_TEMPLATES[i])

\* one of the four tags of the magic entry is requested next to a tag of
\* another entry, and the magic entry was returned
C1_Witness ==
  /\ mpc = "return"
  /\ requestedTags = <<"necromancy", "quests">>
  /\ includes(matched, MagicEntry)

\* C2 as stated: for every non-empty request, every returned entry has a
\* tag of the request.
C2_Original ==
  (mpc = "return" /\ requestedTags # <<>>) =>
    \A p \in DOMAIN matched : SharesTag(matched[p], requestedTags)

\* C2 amended: whenever at least one catalog entry shares a tag with the
\* request, every returned entry has a tag of the request (a request that
\* hits no entry gets the default entry, which has none of its tags).
C2_Soundness ==
  (mpc = "return" /\ \E i \in DOMAIN CATEGORY_TEMPLATES : SharesTag(CATEGORY_TEMPLATES[i], requestedTags)) =>
    \A p \in DOMAIN matched : SharesTag(matched[p], requestedTags)

C2_Witness ==
  /\ mpc = "return"
  /\ requestedTags = <<"combat", "bogus">>
  /\ Len(matched) = 2
  /\ \A p \in DOMAIN matched : SharesTag(matched[p], requestedTags)

\* C3: when no entry matches (empty request, or unknown tags only) the result
\* is exactly the one-element list of the default entry; the result is never
\* empty.
C3_Fallback ==
  mpc = "return" =>
    /\ Len(matched) >= 1
    /\ (\A i \in DOMAIN CATEGORY_TEMPLATES : ~SharesTag(CATEGORY_TEMPLATES[i], requestedTags))
         => matched = <<QuestsEntry>>

C3_Witness ==
  /\ mpc = "return"
  /\ requestedTags = <<"bogus", "Magic">>
  /\ matched = <<QuestsEntry>>

\* C4: the returned entries are in catalog declaration order, however many
\* of their tags were requested.
C4_DeclarationOrder ==
  mpc = "return" =>
    \A p, q \in DOMAIN matched :
      DeclIndex(matched[p]) < DeclIndex(matched[q]) => p < q

\* the later-declared entry is requested first, and both entries come back
C4_Witness ==
  /\ mpc = "return"
  /\ requestedTags = <<"dragons", "magic">>
  /\ Len(matched) = 2
  /\ matched[1] = MagicEntry /\ matched[2] = CombatEntry

\* request lists with the same set of tags as T: its permutations and the
\* lists that repeat or drop repeated tags (up to one element longer)
SameTagSet(T) == {U \in ListsOver(Range(T), Len(T) + 1) : Range(U) = Range(T)}

\* C5: the result depends only on the set of requested tags: every
\* permutation of the request, and every list that differs by repeated tags,
\* yields the same list of entries.
C5_OrderInsensitive ==
  mpc = "return" => \A U \in SameTagSet(requestedTags) : getRelevantTemplates(U) = matched

C5_Witness ==
  /\ mpc = "return"
  /\ requestedTags = <<"quests", "magic">>
  /\ matched = <<MagicEntry, QuestsEntry>>
  /\ <<"magic", "quests">> \in SameTagSet(requestedTags)

\* C6: no entry occurs twice in the result, and the request {magic, combat}
\* yields the magic and the combat entry exactly once each.
C6_NoDuplicates ==
  mpc = "return" =>
    /\ \A p, q \in DOMAIN matched : matched[p] = matched[q] => p = q
    /\ Range(requestedTags) = {"magic", "combat"} =>
         Occurrences(matched, MagicEntry) = 1 /\ Occurrences(matched, CombatEntry) = 1

\* two requested tags hit the same entry
C6_Witness ==
  /\ mpc = "return"
  /\ requestedTags = <<"combat", "artifacts">>
  /\ Occurrences(matched, CombatEntry) = 1

\* C7 as stated: the request [magic] returns the magic entry and not the
\* combat entry, the two entries having no tag in common.
C7_Original ==
  (mpc = "return" /\ requestedTags = <<"magic">>) =>
    /\ includes(matched, MagicEntry)
    /\ ~includes(matched, CombatEntry)
    /\ Range(MagicEntry.themes) \cap Range(CombatEntry.themes) = {}

\* C7 amended: the request [magic] returns the magic entry and not the combat
\* entry, "magic" being no tag of the combat entry (the two entries do share
\* the tag "artifacts").
C7_MagicOnly ==
  (mpc = "return" /\ requestedTags = <<"magic">>) =>
    /\ includes(matched, MagicEntry)
    /\ ~includes(matched, CombatEntry)
    /\ ~includes(CombatEntry.themes, "magic")
    /\ Range(MagicEntry.themes) \cap Range(CombatEntry.themes) = {"artifacts"}

C7_Witness ==
  /\ mpc = "return"
  /\ requestedTags = <<"magic">>
  /\ matched = <<MagicEntry>>

\* the request without its unknown tags
KnownPart(T) == SelectSeq(T, LAMBDA t : t \in CatalogTags)

\* C8: tags of no entry are ignored: the result for a request equals the
\* result for the request with its unknown tags removed.
C8_UnknownIgnored ==
  mpc = "return" => matched = getRelevantTemplates(KnownPart(requestedTags))

C8_Witness ==
  /\ mpc = "return"
  /\ requestedTags = <<"bogus", "economy">>
  /\ KnownPart(requestedTags) = <<"economy">>
  /\ Len(matched) = 1 /\ matched[1].key = "economy"

(* ---- properties of the handler and the composer ---- *)
\* the tag list a themes field stands for: the array itself, or the empty
\* list when the field is absent
TagListOf(themesField) == IF themesField = Undefined THEN <<>> ELSE themesField.v

\* C9: matching and composition are total: a request whose themes field is a
\* list of tags (empty, unknown, repeated, mixed) or is absent is composed
\* without reaching the error response, and the system prompt handed to the
\* endpoint is the one for that list, the empty list when the field is absent.
C9_Total ==
  [][\A r \in Slots :
       (pc[r] = "parsed" /\ pc'[r] # "parsed" /\ apiKey
        /\ request[r].themes.t \in {"array", "undefined"}) =>
         /\ pc'[r] = "fetching"
         /\ response'[r] = NoResponse
         /\ sent'[r].systemPrompt =
              promptAround(categoryContext(getRelevantTemplates(TagListOf(request[r].themes))))]_vars

\* a request without themes field has been composed, next to one with a
\* repeated unknown tag
C9_Witness ==
  /\ pc[1] = "fetching" /\ request[1].themes = Undefined
  /\ sent[1].systemPrompt = promptAround(templateSection(QuestsEntry))
  /\ pc[2] = "fetching" /\ request[2].themes = Arr(<<"bogus", "bogus">>)

PositionsOf(text, tok) == {k \in DOMAIN text : text[k] = tok}

\* position of the first occurrence of a token, 0 when it does not occur
Pos(text, tok) ==
  IF PositionsOf(text, tok) = {} THEN 0
  ELSE CHOOSE k \in PositionsOf(text, tok) : \A j \in PositionsOf(text, tok) : k <= j

OccursOnce(text, tok) == Cardinality(PositionsOf(text, tok)) = 1

\* the tokens of text at the positions of S, in order
RECURSIVE TokensAt(_, _)
TokensAt(text, S) ==
  IF S = {} THEN <<>>
  ELSE LET k == CHOOSE x \in S : \A y \in S : x <= y
       IN <<text[k]>> \o TokensAt(text, S \ {k})

\* the headings of the sections, as they stand in the text
H_ROLE == "You are a creative mod idea generator for OpenMW (Morrowind). [...]\n\n"
H_SHAPE == "Your responses must be valid JSON with this exact structure: [...]\n\n"
H_CORE == "## Core Modules & Documented APIs: [...]\n\n"
H_CONTEXTS == "\n## Script Contexts:\n"
H_INTERFACES == "\n## Interfaces:\n"
H_EVENTS == "\n## Events:\n"
H_MULTI == "\n## Multi-Stage Patterns:\n"
H_ENGINE == "\n## Engine Handlers Reference:\n"
H_CATEGORY == "\n\n## Category-Specific Patterns:\n"
H_LIFECYCLE == "\n\n## Script Lifecycle Handlers (CRITICAL): [...]\n\n"
H_CRITICAL == "## CRITICAL Requirements: [...]\n\n"
H_OMWSCRIPTS == "## .omwscripts Example Patterns:\n[fence]\n"
H_FLOW == "## Communication Flow: [...]\n\n"
H_TAGS == "Tags must be from: "

\* the headings occur once each and in the order of the list
InOrder(text, headings) ==
  /\ \A i \in DOMAIN headings : OccursOnce(text, headings[i])
  /\ \A i, j \in DOMAIN headings : i < j => Pos(text, headings[i]) < Pos(text, headings[j])

\* positions where the section of a matched entry starts:
\* "### <name> (<context> script context)"
EntryStarts(text) ==
  {k \in DOMAIN text : text[k] = "\n### " /\ k + 4 <= Len(text)
                       /\ text[k + 4] = " script context)\n"}

RenderedEntryNames(text) == TokensAt(text, {k + 1 : k \in EntryStarts(text)})

\* positions strictly between two headings
Between(text, from, to) == (Pos(text, from) + 1) .. (Pos(text, to) - 1)

\* the instruction composed by the call under test
Composed == calls[1].systemPrompt

\* C11 as stated, reading "lifecycle patterns" as the lifecycle handlers
\* block or else as the engine handler reference: role framing, output
\* shape, API reference, contexts, event patterns, lifecycle patterns,
\* multi-stage patterns, matched entries, closing constraints, every
\* auxiliary pattern section before the matched entries.
C11_Original ==
  mpc = "return" =>
    \/ InOrder(Composed, <<H_ROLE, H_SHAPE, H_CORE, H_CONTEXTS, H_EVENTS, H_LIFECYCLE,
                           H_MULTI, H_CATEGORY, H_TAGS>>)
    \/ InOrder(Composed, <<H_ROLE, H_SHAPE, H_CORE, H_CONTEXTS, H_EVENTS, H_ENGINE,
                           H_MULTI, H_CATEGORY, H_TAGS>>)

\* C11 amended: for every input the sections stand in this order: role
\* framing, output shape, API reference, script contexts, interfaces, events,
\* multi-stage patterns, engine handler reference, the matched entries, the
\* lifecycle handlers block, critical requirements, .omwscripts example,
\* communication flow and last the allowed tags; the matched entries lie
\* between the category heading and the lifecycle block.
C11_SectionOrder ==
  mpc = "return" =>
    /\ InOrder(Composed, <<H_ROLE, H_SHAPE, H_CORE, H_CONTEXTS, H_INTERFACES, H_EVENTS,
                           H_MULTI, H_ENGINE, H_CATEGORY, H_LIFECYCLE, H_CRITICAL,
                           H_OMWSCRIPTS, H_FLOW, H_TAGS>>)
    /\ Pos(Composed, H_ROLE) = 1
    /\ EntryStarts(Composed) # {}
    /\ EntryStarts(Composed) \subseteq Between(Composed, H_CATEGORY, H_LIFECYCLE)
    /\ \A k \in DOMAIN Composed :
         k > Pos(Composed, H_TAGS) => Composed[k] \in Range(PROMPT_TAGS) \cup {", "}

C11_Witness ==
  /\ mpc = "return"
  /\ requestedTags = <<"weather", "lore">>
  /\ Cardinality(EntryStarts(Composed)) = 2
  /\ Pos(Composed, H_ENGINE) < Pos(Composed, H_CATEGORY)
  /\ Pos(Composed, H_CATEGORY) < Pos(Composed, H_LIFECYCLE)

\* C12: the entry names rendered under the category heading are the names of
\* the matcher's result, in the same order, one section per entry.
C12_EntryOrder ==
  mpc = "return" =>
    RenderedEntryNames(Composed) = [i \in DOMAIN matched |-> matched[i].name]

C12_Witness ==
  /\ mpc = "return"
  /\ requestedTags = <<"stealth", "magic">>
  /\ RenderedEntryNames(Composed) = <<"Magic Systems", "Stealth & Sneaking">>

\* the context names rendered between the contexts and interfaces headings
RenderedContextNames(text) ==
  TokensAt(text, {k + 1 : k \in {j \in Between(text, H_CONTEXTS, H_INTERFACES) :
                                   text[j] = "\n### "}})

\* the text of the script context section
ContextSection(text) == SubSeq(text, Pos(text, H_CONTEXTS) + 1, Pos(text, H_INTERFACES) - 1)

\* C13: whatever the requested tags, the instruction contains the description
\* of each of the three script contexts exactly once, and the context section
\* is the same as for the empty request.
C13_ContextsAlways ==
  mpc = "return" =>
    /\ RenderedContextNames(Composed) = <<"Global Script", "Local Script", "Player Script">>
    /\ Len(SCRIPT_CONTEXT_TEMPLATES) = 3
    /\ \A i \in DOMAIN SCRIPT_CONTEXT_TEMPLATES :
         /\ OccursOnce(Composed, SCRIPT_CONTEXT_TEMPLATES[i].description)
         /\ Pos(Composed, SCRIPT_CONTEXT_TEMPLATES[i].description)
              \in Between(Composed, H_CONTEXTS, H_INTERFACES)
    /\ ContextSection(Composed) = ContextSection(buildSystemPrompt(<<>>))

\* a request that matches player-context entries only
C13_Witness ==
  /\ mpc = "return"
  /\ requestedTags = <<"camera", "hud">>
  /\ \A i \in DOMAIN matched : matched[i].scriptContext = "player"
  /\ OccursOnce(Composed, "Attached to specific actors/objects, access to self and nearby")

\* the text of the category section
CategorySection(text) == SubSeq(text, Pos(text, H_CATEGORY) + 1, Pos(text, H_LIFECYCLE) - 1)

\* number of positions of a section that hold the token
RenderedCount(section, tok) == Cardinality(PositionsOf(section, tok))

\* how many items x the lists F(arr[1]), F(arr[2]), ... hold together
ItemCount(arr, F(_), x) ==
  Cardinality(UNION {{<<i, j>> : j \in {n \in DOMAIN F(arr[i]) : F(arr[i])[n] = x}} :
                       i \in DOMAIN arr})

\* how many items the lists hold together
TotalCount(arr, F(_)) ==
  Cardinality(UNION {{<<i, j>> : j \in DOMAIN F(arr[i])} : i \in DOMAIN arr})

AllEntries == Range(CATEGORY_TEMPLATES)

\* C16: nothing is truncated or deduplicated: every api line, every example
\* and every documentation link of the catalog is rendered as often as it
\* occurs in the matched entries, so the rendered items number the sum of the
\* entries' item counts, also when two matched entries share a link.
C16_NoTruncation ==
  mpc = "return" =>
    LET Rendered == CategorySection(Composed) IN
    /\ \A e \in AllEntries : \A i \in DOMAIN e.apis :
         RenderedCount(Rendered, "- " \o e.apis[i]) =
           ItemCount(matched, LAMBDA m : m.apis, e.apis[i])
    /\ \A e \in AllEntries : \A i \in DOMAIN e.docLinks :
         RenderedCount(Rendered, e.docLinks[i]) =
           ItemCount(matched, LAMBDA m : m.docLinks, e.docLinks[i])
    /\ \A e \in AllEntries : \A i \in DOMAIN e.examples :
         /\ RenderedCount(Rendered, e.examples[i].title) =
              ItemCount(matched, LAMBDA m : m.examples, e.examples[i])
         /\ RenderedCount(Rendered, e.examples[i].code) =
              ItemCount(matched, LAMBDA m : m.examples, e.examples[i])
    /\ RenderedCount(Rendered, "\n**") = TotalCount(matched, LAMBDA m : m.examples)
    /\ RenderedCount(Rendered, "Docs: ") = Len(matched)

\* the magic and the stealth entry both carry the Actor documentation link
C16_Witness ==
  /\ mpc = "return"
  /\ requestedTags = <<"magic", "sneaking">>
  /\ Len(matched) = 2
  /\ RenderedCount(CategorySection(Composed), DOCS_BASE \o "/openmw_types.html#Actor") = 2

\* C17: for every request, also the empty one and one of unknown tags only,
\* the instruction has at least one matched-entry section and at least one
\* worked example in it.
C17_NeverEmpty ==
  mpc = "return" =>
    LET Rendered == CategorySection(Composed) IN
    /\ Len(RenderedEntryNames(Composed)) >= 1
    /\ RenderedCount(Rendered, "\n**") >= 1
    /\ \E k \in EntryStarts(Composed) :
         \E j \in Between(Composed, H_CATEGORY, H_LIFECYCLE) : j > k /\ Composed[j] = "\n**"

C17_Witness ==
  /\ mpc = "return"
  /\ requestedTags = <<>>
  /\ RenderedEntryNames(Composed) = <<"Quest Structures">>
  /\ RenderedCount(CategorySection(Composed), "\n**") = 2

(* ---- reading the messages handed to the model endpoint back ---- *)
\* the requests whose two messages have been built and sent
InFlight == {r \in Slots : pc[r] = "fetching"}

\* selectedApiPackages of a request whose apiPackages field is a list or absent
EmphasisListOf(body) == IF body.apiPackages = Undefined THEN <<>> ELSE body.apiPackages.v

\* first and last token of the emphasis section, as they stand in the text
H_EMPHASIS ==
  "\n\nPRIORITIZED API PACKAGES - The user specifically wants the generated code to focus on these OpenMW Lua packages:\n- "
H_FOREGROUND ==
  "\n\nMake sure your implementation hints prominently feature these packages with practical examples. Design the mod concept around capabilities these packages provide."

\* the items standing between two markers, the separators between them left out
ItemsBetween(text, from, to) ==
  [i \in 1..((Pos(text, to) - Pos(text, from)) \div 2) |-> text[Pos(text, from) + 2 * i - 1]]

SeparatorsBetween(text, from, to) ==
  {text[Pos(text, from) + 2 * i] : i \in 1..(((Pos(text, to) - Pos(text, from)) \div 2) - 1)}

\* the lines of the emphasis section
EmphasisLines(text) == ItemsBetween(text, H_EMPHASIS, H_FOREGROUND)

HasEmphasis(text) == H_EMPHASIS \in Range(text) \/ H_FOREGROUND \in Range(text)

C15_UnknownVerbatim ==
  \A r \in InFlight :
    LET list == EmphasisListOf(request[r])
        lines == EmphasisLines(sent[r].userPrompt)
    IN list # <<>> =>
         /\ Len(lines) = Len(list)
         /\ \A i \in DOMAIN list :
              lines[i] = IF list[i] \in DOMAIN packageDescriptions
                         THEN packageDescriptions[list[i]]
                         ELSE list[i]

\* where the claim's case happens: a known and an ordinary unknown identifier
\* are rendered as the claim says
C15_Witness ==
  /\ 1 \in InFlight
  /\ request[1].apiPackages = Arr(<<"openmw.ui", "my.pkg">>)
  /\ EmphasisLines(sent[1].userPrompt) =
       <<"openmw.ui (HUD and menu creation - Player only)", "my.pkg">>

\* first token of the random user-intent string and the token after the tags
H_RANDOM == "Generate a completely random and creative OpenMW mod idea combining themes: "
H_COMPLEXITY == ".\nThe complexity should be: "

\* the tags named in a random user-intent string
NamedTags(text) == ItemsBetween(text, H_RANDOM, H_COMPLEXITY)

RandomInFlight == {r \in InFlight : truthy(request[r].isRandom)}

NamesOf(entries) == [i \in DOMAIN entries |-> entries[i].name]

\* C18: the entries rendered in the system instruction of a random request
\* are those getRelevantTemplates returns for the two sampled tags.
C18_RandomTagsMatched ==
  \A r \in RandomInFlight :
    RenderedEntryNames(sent[r].systemPrompt) =
      NamesOf(getRelevantTemplates(NamedTags(sent[r].userPrompt)))

\* C19: in random mode the user-intent string names exactly two tags, the two
\* are distinct and both are of the eight-tag random vocabulary, whatever the
\* outcome of the shuffle.
C19_TwoDistinctTags ==
  \A r \in RandomInFlight :
    LET text == sent[r].userPrompt
        named == NamedTags(text)
    IN /\ Pos(text, H_RANDOM) = 1
       /\ OccursOnce(text, H_COMPLEXITY)
       /\ Pos(text, H_COMPLEXITY) = 5
       /\ Len(randomThemes) = 8
       /\ Len(named) = 2
       /\ text[3] = " and "
       /\ named[1] # named[2]
       /\ Range(named) \subseteq Range(randomThemes)
       /\ Cardinality({k \in DOMAIN text : text[k] \in Range(randomThemes)}) = 2

\* two random requests sent, with different outcomes of the shuffle
C19_Witness ==
  /\ RandomInFlight = {1, 2}
  /\ NamedTags(sent[1].userPrompt) = <<"necromancy", "magic">>
  /\ NamedTags(sent[2].userPrompt) = <<"magic", "guilds">>

\* the user-intent string a request body yields on its own
UserPromptsAlone(body) ==
  IF truthy(body.isRandom)
  THEN {randomUserPrompt(p, EmphasisListOf(body)) : p \in PickedThemes}
  ELSE {formUserPrompt(body, TagListOf(body.themes), EmphasisListOf(body))}

Answered == {r \in Slots : pc[r] = "done"}

\* the requests answered with the completed idea
Succeeded ==
  {r \in Answered : gateway[r].reply.kind = "ok" /\ response[r].status = 200}

\* the record parsed from the reply the endpoint gave to a request
ParsedReply(r) == gateway[r].reply.content.json

\* C21: each request is a single pass: the model endpoint is called at most
\* once per request, a failed call is not repeated, a request that leaves
\* the fetch is answered, no request has a response before it is answered,
\* and its one response never changes afterwards.
C21_SinglePass ==
  /\ [](\A r \in Slots :
          /\ gateway[r].calls <= 1
          /\ (response[r] # NoResponse) <=> (r \in Answered)
          /\ pc[r] = "fetching" => gateway[r].calls = 1)
  /\ [][\A r \in Slots :
          /\ (r \in Answered) => (pc'[r] = "done" /\ response'[r] = response[r]
                                  /\ gateway'[r] = gateway[r])
          /\ (pc[r] = "fetching" /\ pc'[r] # "fetching") =>
               (pc'[r] = "done" /\ response'[r] # NoResponse)
          /\ gateway'[r].calls > gateway[r].calls => pc[r] = "parsed"]_vars

\* a rejected fetch and an upstream 503, each answered after one call
C21_Witness ==
  /\ Answered = {1, 2}
  /\ gateway[1] = [calls |-> 1, reply |-> [kind |-> "rejected"]]
  /\ response[1].status = 500
  /\ gateway[2] = [calls |-> 1, reply |-> [kind |-> "status", status |-> 503]]
  /\ response[2].status = 500

\* C22 as stated: on success the response body has the same fields with the
\* same values as the record parsed from the reply.
C22_Original ==
  \A r \in Succeeded : response[r].body = ParsedReply(r)

\* the fields the handler writes itself
MetadataFields == {"id", "complexity", "gameType", "createdAt"}

\* C22 amended: on success every field of the parsed reply other than id,
\* complexity, gameType and createdAt is returned with the same value; the
\* response has these four fields in addition to the reply's, complexity and
\* gameType being those of the request (quest-mod and rpg when absent).
C22_ReplyPlusMetadata ==
  [][\A r \in Slots :
       (pc[r] = "fetching" /\ pc'[r] = "done" /\ response'[r].status = 200) =>
         LET reply == gateway'[r].reply.content.json
             idea == response'[r].body
         IN /\ DOMAIN idea = DOMAIN reply \cup MetadataFields
            /\ \A k \in DOMAIN reply \ MetadataFields : idea[k] = reply[k]
            /\ idea.complexity = (IF request[r].complexity = Undefined
                                  THEN "quest-mod" ELSE request[r].complexity.s)
            /\ idea.gameType = (IF request[r].gameType = Undefined
                                THEN "rpg" ELSE request[r].gameType.s)]_vars

\* a reply with a complexity of its own answered to a request without one
C22_Witness ==
  /\ 1 \in Succeeded
  /\ "complexity" \in DOMAIN ParsedReply(1)
  /\ ParsedReply(1).complexity = "simple"
  /\ response[1].body.complexity = "quest-mod"
  /\ response[1].body.title = ParsedReply(1).title

\* the UUIDs generated so far
GeneratedUuids == {"uuid-" \o ToString(n) : n \in 1..uuids}

\* C23: in every successful response the id is the UUID generated for that
\* request, whatever the reply contains, and two successful responses never
\* carry the same id.
C23_FreshId ==
  /\ \A r \in Succeeded : response[r].body.id \in GeneratedUuids
  /\ \A r, q \in Succeeded : r # q => response[r].body.id # response[q].body.id

\* C28: a request answered after an upstream 429 has status 429, after an
\* upstream 402 status 402; after any other upstream status, a rejected
\* fetch, a reply without content, a reply that is not JSON, a body that is
\* not JSON, a themes field that is no list or a missing API key it has
\* status 500; every error response has a body with an error field and no
\* other; when the API key is missing the endpoint is never called.
C28_ErrorOutcomes ==
  /\ ~apiKey => \A r \in Slots : gateway[r] = NoCall /\ pc[r] # "fetching"
  /\ \A r \in Answered :
       LET reply == gateway[r].reply
           resp == response[r]
       IN /\ (reply.kind = "status" /\ reply.status = 429) => resp.status = 429
          /\ (reply.kind = "status" /\ reply.status = 402) => resp.status = 402
          /\ (reply.kind = "status" /\ reply.status \notin {429, 402}) => resp.status = 500
          /\ reply.kind = "rejected" => resp.status = 500
          /\ (reply.kind = "ok" /\ reply.content.wrap \in {"none", "text"}) => resp.status = 500
          /\ (~apiKey /\ resp.body # [t |-> "null"]) => resp.status = 500
          /\ resp.status \in {200, 429, 402, 500}
          /\ resp.status # 200 => DOMAIN resp.body = {"error"}
          /\ resp.status = 200 => "error" \notin DOMAIN resp.body
          /\ (resp.status = 200 /\ resp.body # [t |-> "null"]) => r \in Succeeded

\* an upstream 429 and an upstream 503 answered
C28_Witness ==
  /\ Answered = {1, 2}
  /\ gateway[1].reply = [kind |-> "status", status |-> 429]
  /\ response[1] = errorResponse(429, "Rate limit exceeded. Please try again in a moment.")
  /\ gateway[2].reply = [kind |-> "status", status |-> 503]
  /\ response[2] = errorResponse(500, "AI gateway error: 503")

(* ---- the saved-ideas store ---- *)
SavedIds(store) == {store[i].id : i \in DOMAIN store}

NoSharedId(store) == \A i, j \in DOMAIN store : store[i].id = store[j].id => i = j

\* C24: starting from the empty store, after any sequence of saveIdea,
\* removeIdea and clearAllIdeas no two saved ideas share an id; a saveIdea
\* of an idea whose id is present leaves the store as it was, a saveIdea of
\* a new id appends the idea at the end.
C24_UniqueIds ==
  /\ [](NoSharedId(savedIdeas))
  /\ [][lastCall'.op = "saveIdea" =>
          IF lastCall'.idea.id \in SavedIds(savedIdeas)
          THEN savedIdeas' = savedIdeas
          ELSE savedIdeas' = savedIdeas \o <<lastCall'.idea>>]_vars

\* an idea was offered under an id that is saved with another title
C24_Witness ==
  /\ lastCall = [op |-> "saveIdea", idea |-> [id |-> "id-1", title |-> "U"]]
  /\ savedIdeas = <<[id |-> "id-2", title |-> "T"], [id |-> "id-1", title |-> "T"]>>

\* the indices of the ideas a removal keeps
Kept(store, ideaId) == {i \in DOMAIN store : store[i].id # ideaId}

\* C25: removeIdea(id) removes exactly the saved ideas whose id is id and
\* leaves the others in their order; without such an idea the store is
\* unchanged; afterwards isIdeaSaved(id) is false.
C25_RemoveExactly ==
  [][lastCall'.op = "removeIdea" =>
       LET ideaId == lastCall'.ideaId
           kept == Kept(savedIdeas, ideaId)
       IN /\ Len(savedIdeas') = Cardinality(kept)
          /\ \A k \in DOMAIN savedIdeas' :
               \E i \in kept : /\ savedIdeas'[k] = savedIdeas[i]
                               /\ Cardinality({j \in kept : j <= i}) = k
          /\ ideaId \notin SavedIds(savedIdeas) => savedIdeas' = savedIdeas
          /\ ~\E i \in DOMAIN savedIdeas' : savedIdeas'[i].id = ideaId]_vars

\* the middle one of three saved ideas has been removed
C25_Witness ==
  /\ lastCall = [op |-> "removeIdea", ideaId |-> "id-2"]
  /\ savedIdeas = <<[id |-> "id-3", title |-> "T"], [id |-> "id-1", title |-> "U"]>>

(* ---- the page ---- *)
\* C26: every generateIdea call that is started sets isGenerating back to
\* false once its invocation settles, with an idea, with an error payload,
\* with an error or by throwing; after a failed call generatedIdea is null.
C26_GeneratingEnds ==
  /\ [][Len(inFlight') < Len(inFlight) =>
          /\ lastCall'.op = "generateIdea"
          /\ isGenerating' = FALSE
          /\ lastCall'.outcome # "data" => generatedIdea' = Null]_vars
  /\ (isGenerating ~> ~isGenerating)

\* a generation has failed with an error payload
C26_Witness ==
  /\ lastCall = [op |-> "generateIdea", outcome |-> "errorPayload"]
  /\ inFlight = <<>>
  /\ ~isGenerating
  /\ generatedIdea = Null

\* C27: at most one generation request is in flight; while one is in flight
\* isGenerating is true and both buttons are disabled, so isGenerating is
\* false only when none is in flight.
C27_OneInFlight ==
  /\ Len(inFlight) <= 1
  /\ inFlight # <<>> => (isGenerating /\ submitDisabled /\ randomDisabled)
  /\ ~isGenerating => inFlight = <<>>

\* a random request is in flight and the form is being edited meanwhile
C27_Witness ==
  /\ inFlight = <<randomData>>
  /\ isGenerating
  /\ formThemes = <<"kingdoms", "magic">>
  /\ lastCall = [op |-> "generateIdea", outcome |-> "throws"]

NoRepeats(list) == \A i, j \in DOMAIN list : list[i] = list[j] => i = j

\* C29: a request produced by the submit button never triggers the matcher's
\* fallback: its themes are [magic, quests] when nothing is selected and the
\* selection otherwise, the selection has no tag twice, every tag of the
\* form is a tag of some catalog entry, so the matcher's loop finds an entry.
C29_SubmitNeverFallsBack ==
  /\ NoRepeats(formThemes)
  /\ Range(formThemes) \subseteq Range(THEME_TAGS)
  /\ \A i \in DOMAIN THEME_TAGS : relevantLoop(<<THEME_TAGS[i]>>, 1, <<>>) # <<>>
  /\ \A k \in DOMAIN inFlight :
       inFlight[k].isRandom = Undefined =>
         /\ inFlight[k].themes.t = "array"
         /\ inFlight[k].themes.v # <<>>
         /\ NoRepeats(inFlight[k].themes.v)
         /\ relevantLoop(inFlight[k].themes.v, 1, <<>>) # <<>>
         /\ getRelevantTemplates(inFlight[k].themes.v) = relevantLoop(inFlight[k].themes.v, 1, <<>>)

\* a submit without selection, after a tag was selected and deselected
C29_Witness ==
  /\ formThemes = <<>>
  /\ inFlight = <<formData(<<>>)>>
  /\ inFlight[1].themes = Arr(<<"magic", "quests">>)
  /\ lastCall = [op |-> "generateIdea", outcome |-> "data"]

\* the tags the closing constraints allow
AllowedTags(text) == {text[k] : k \in (Pos(text, H_TAGS) + 1)..Len(text)} \ {", "}

\* C30: the allowed output tags stated at the end of the composed
\* instruction contain every tag that occurs in the themes of a catalog
\* entry.
C30_VocabularyCovers ==
  mpc = "return" => CatalogTags \subseteq AllowedTags(Composed)

====
